---- MODULE Spec2Model ----
(***************************************************************************)
(* Model of the credential status registry of team-hackops                 *)
(* (packages/contracts/contracts/CredentialStatusRegistry.sol).            *)
(*                                                                         *)
(* Every public function of the contract is one action.  A transaction     *)
(* either commits all its writes or reverts and leaves the storage as it   *)
(* was.  Each function is an operator that yields the outcome of a call in *)
(* the current state: the revert string ("" on success), the storage after *)
(* it and the events it emits.  lastCall is the last committed transaction.*)
(***************************************************************************)
EXTENDS Integers, Sequences, FiniteSets, TLC

(* ------------------------------ bounds -------------------------------- *)
\* block.timestamp ranges over 1..MaxTime
MaxTime == 2
\* no more than MaxWrites transactions are committed in one behaviour
MaxWrites == 3
\* longest id array handed to batchCheckStatus
MaxBatch == 2

(* ------------------------- enum Status (l.11-16) ----------------------- *)
Active == 0
Revoked == 1
Suspended == 2
Expired == 3
Status == {Active, Revoked, Suspended, Expired}

(* ------------------------------ inputs -------------------------------- *)
\* msg.sender of a transaction; the zero address never sends one
Addresses == {"0xA", "0xB"}
ZeroAddress == "0x0"
\* credential ids a caller may pass; "" is the empty string
CredentialIds == {"cred:1", "cred:2"}
EmptyId == ""
AllIds == CredentialIds \cup {EmptyId}
Reasons == {"key leaked"}
ExpiryInputs == 0..MaxTime

(* --------------------------- revert strings ---------------------------- *)
Ok == ""
AlreadyExists == "Credential already exists"
InvalidArgument == "Credential ID cannot be empty"
Unauthorized == "Only issuer can update credential status"
NotFound == "Credential does not exist"
NoOp == "Status unchanged"
ExpiredError == "Credential has expired"
NotSuspended == "Credential is not suspended"

VARIABLES
    credentialStatuses,  \* mapping(string => CredentialStatus)
    issuerCredentials,   \* mapping(address => string[])
    statusHistory,       \* mapping(string => StatusUpdate[])
    now,                 \* block.timestamp
    lastCall,            \* the last committed transaction and its events
    issueCount,          \* per id: number of committed issueCredential calls
    changeCount          \* per id: number of committed status changes

vars == <<credentialStatuses, issuerCredentials, statusHistory, now,
          lastCall, issueCount, changeCount>>
storage == <<credentialStatuses, issuerCredentials, statusHistory>>

\* the value a mapping returns for a key that was never written
NoCredential ==
    [credentialId |-> "", issuer |-> ZeroAddress, status |-> Active,
     issuedAt |-> 0, updatedAt |-> 0, expiresAt |-> 0, reason |-> "",
     exists |-> FALSE]

(* --------------------------- transactions ------------------------------ *)
\* a reverted call: the error, the untouched storage, no event
Revert(msg) ==
    [err |-> msg, cs |-> credentialStatuses, ic |-> issuerCredentials,
     sh |-> statusHistory, events |-> <<>>]

\* a faulty onlyIssuer: tests that the credential has an issuer, not that
\* the caller is that issuer
onlyIssuerAnyCaller(credentialId, sender) ==
    credentialStatuses[credentialId].issuer # ZeroAddress

\* modifier onlyIssuer
onlyIssuer(credentialId, sender) ==
    credentialStatuses[credentialId].issuer = sender

\* a faulty issuance record: the existence flag is left unset
newCredentialUnflagged(sender, credentialId, expiresAt) ==
    [credentialId |-> credentialId, issuer |-> sender, status |-> Active,
     issuedAt |-> now, updatedAt |-> now, expiresAt |-> expiresAt,
     reason |-> "", exists |-> FALSE]

\* the record issueCredential stores (l.106-115)
newCredential(sender, credentialId, expiresAt) ==
    [credentialId |-> credentialId, issuer |-> sender, status |-> Active,
     issuedAt |-> now, updatedAt |-> now, expiresAt |-> expiresAt,
     reason |-> "", exists |-> TRUE]

\* a faulty history write: the new entry replaces the log
overwriteHistory(credentialId, status, sender, reason) ==
    [statusHistory EXCEPT ![credentialId] =
        << [status |-> status, timestamp |-> now,
            updatedBy |-> sender, reason |-> reason] >>]

\* statusHistory[credentialId].push(StatusUpdate({...})) (l.119-124, 165-170)
pushHistory(credentialId, status, sender, reason) ==
    [statusHistory EXCEPT ![credentialId] =
        Append(@, [status |-> status, timestamp |-> now,
                   updatedBy |-> sender, reason |-> reason])]

\* an issuance that leaves the issuer's list as it is
issueWithoutIndex(sender, credentialId, expiresAt) ==
    IF credentialStatuses[credentialId].exists THEN Revert(AlreadyExists)
    ELSE IF credentialId = EmptyId THEN Revert(InvalidArgument)
    ELSE
      [err |-> Ok,
       cs |-> [credentialStatuses EXCEPT ![credentialId] =
                 newCredential(sender, credentialId, expiresAt)],
       ic |-> issuerCredentials,
       sh |-> pushHistory(credentialId, Active, sender, "Credential issued"),
       events |-> << [name |-> "CredentialIssued",
                      credentialId |-> credentialId, issuer |-> sender,
                      issuedAt |-> now, expiresAt |-> expiresAt] >>]

issueCredential(sender, credentialId, expiresAt) ==
    IF credentialStatuses[credentialId].exists THEN Revert(AlreadyExists)
    ELSE IF credentialId = EmptyId THEN Revert(InvalidArgument)
    ELSE
      [err |-> Ok,
       cs |-> [credentialStatuses EXCEPT ![credentialId] =
                 newCredential(sender, credentialId, expiresAt)],
       ic |-> [issuerCredentials EXCEPT ![sender] = Append(@, credentialId)],
       sh |-> pushHistory(credentialId, Active, sender, "Credential issued"),
       events |-> << [name |-> "CredentialIssued",
                      credentialId |-> credentialId, issuer |-> sender,
                      issuedAt |-> now, expiresAt |-> expiresAt] >>]


\* a status change that publishes its event twice
statusEventsTwice(sender, credentialId, oldStatus, newStatus, reason) ==
    LET e == [name |-> "CredentialStatusUpdated",
              credentialId |-> credentialId, oldStatus |-> oldStatus,
              newStatus |-> newStatus, updatedBy |-> sender,
              reason |-> reason]
    IN <<e, e>>

\* the events updateStatus emits after the write (l.172-187)
statusEvents(sender, credentialId, oldStatus, newStatus, reason) ==
    << [name |-> "CredentialStatusUpdated", credentialId |-> credentialId,
        oldStatus |-> oldStatus, newStatus |-> newStatus,
        updatedBy |-> sender, reason |-> reason] >>
    \o (IF newStatus = Revoked
          THEN << [name |-> "CredentialRevoked", credentialId |-> credentialId,
                   issuer |-> sender, reason |-> reason] >>
        ELSE IF newStatus = Suspended
          THEN << [name |-> "CredentialSuspended",
                   credentialId |-> credentialId,
                   issuer |-> sender, reason |-> reason] >>
        ELSE IF newStatus = Active /\ oldStatus = Suspended
          THEN << [name |-> "CredentialReactivated",
                   credentialId |-> credentialId, issuer |-> sender] >>
        ELSE << >>)

\* a faulty expiration check: compares the time of issuance, not the
\* current time
notExpiredAtIssue(credentialId) ==
    credentialStatuses[credentialId].expiresAt > 0
        => credentialStatuses[credentialId].issuedAt
              <= credentialStatuses[credentialId].expiresAt

\* the expiration check of updateStatus (l.153-159): TRUE when it passes
notExpired(credentialId) ==
    credentialStatuses[credentialId].expiresAt > 0
        => now <= credentialStatuses[credentialId].expiresAt

\* a status change that leaves updatedAt as it is
updateStatusKeepsTime(sender, credentialId, newStatus, reason) ==
    IF ~onlyIssuer(credentialId, sender) THEN Revert(Unauthorized)
    ELSE IF ~credentialStatuses[credentialId].exists THEN Revert(NotFound)
    ELSE LET oldStatus == credentialStatuses[credentialId].status IN
      IF oldStatus = newStatus THEN Revert(NoOp)
      ELSE IF ~notExpired(credentialId) THEN Revert(ExpiredError)
      ELSE
        [err |-> Ok,
         cs |-> [credentialStatuses EXCEPT
                   ![credentialId].status = newStatus,
                   ![credentialId].reason = reason],
         ic |-> issuerCredentials,
         sh |-> pushHistory(credentialId, newStatus, sender, reason),
         events |-> statusEvents(sender, credentialId, oldStatus,
                                 newStatus, reason)]

updateStatus(sender, credentialId, newStatus, reason) ==
    IF ~onlyIssuer(credentialId, sender) THEN Revert(Unauthorized)
    ELSE IF ~credentialStatuses[credentialId].exists THEN Revert(NotFound)
    ELSE LET oldStatus == credentialStatuses[credentialId].status IN
      IF oldStatus = newStatus THEN Revert(NoOp)
      ELSE IF ~notExpired(credentialId) THEN Revert(ExpiredError)
      ELSE
        [err |-> Ok,
         cs |-> [credentialStatuses EXCEPT
                   ![credentialId].status = newStatus,
                   ![credentialId].updatedAt = now,
                   ![credentialId].reason = reason],
         ic |-> issuerCredentials,
         sh |-> pushHistory(credentialId, newStatus, sender, reason),
         events |-> statusEvents(sender, credentialId, oldStatus,
                                 newStatus, reason)]

\* a revocation that only suspends
revokeOnlySuspends(sender, credentialId, reason) ==
    IF ~onlyIssuer(credentialId, sender) THEN Revert(Unauthorized)
    ELSE updateStatus(sender, credentialId, Suspended, reason)

revokeCredential(sender, credentialId, reason) ==
    IF ~onlyIssuer(credentialId, sender) THEN Revert(Unauthorized)
    ELSE updateStatus(sender, credentialId, Revoked, reason)

suspendCredential(sender, credentialId, reason) ==
    IF ~onlyIssuer(credentialId, sender) THEN Revert(Unauthorized)
    ELSE updateStatus(sender, credentialId, Suspended, reason)

\* a faulty source-state requirement: any status but Active passes
isNotActive(credentialId) ==
    credentialStatuses[credentialId].status # Active

\* the source-state requirement of reactivateCredential (l.222-225)
isSuspended(credentialId) ==
    credentialStatuses[credentialId].status = Suspended

\* a reactivation that also lifts the expiry
reactivateRenews(sender, credentialId) ==
    IF ~onlyIssuer(credentialId, sender) THEN Revert(Unauthorized)
    ELSE IF ~isSuspended(credentialId) THEN Revert(NotSuspended)
    ELSE LET r == updateStatus(sender, credentialId, Active,
                               "Credential reactivated")
         IN IF r.err # Ok THEN r
            ELSE [r EXCEPT !.cs[credentialId].expiresAt = 0]

reactivateCredential(sender, credentialId) ==
    IF ~onlyIssuer(credentialId, sender) THEN Revert(Unauthorized)
    ELSE IF ~isSuspended(credentialId) THEN Revert(NotSuspended)
    ELSE updateStatus(sender, credentialId, Active, "Credential reactivated")

(* ------------------------------- views --------------------------------- *)
\* a faulty validity: the expiry instant itself counts as expired
isValidBefore(status, expiresAt) ==
    LET isValid == (status = Active) IN
    IF isValid /\ expiresAt > 0 THEN now < expiresAt ELSE isValid

\* isValid as checkStatus computes it (l.255-258)
isValidAt(status, expiresAt) ==
    LET isValid == (status = Active) IN
    IF isValid /\ expiresAt > 0 THEN now <= expiresAt ELSE isValid

\* a checkStatus that answers "not valid" for an unknown id
checkStatusUnknownInvalid(credentialId) ==
    IF ~credentialStatuses[credentialId].exists
      THEN [err |-> Ok, status |-> Active, isValid |-> FALSE,
            expiresAt |-> 0]
    ELSE LET credStatus == credentialStatuses[credentialId] IN
      [err |-> Ok, status |-> credStatus.status,
       isValid |-> isValidAt(credStatus.status, credStatus.expiresAt),
       expiresAt |-> credStatus.expiresAt]

checkStatus(credentialId) ==
    IF ~credentialStatuses[credentialId].exists
      THEN [err |-> NotFound, status |-> Active, isValid |-> FALSE,
            expiresAt |-> 0]
    ELSE LET credStatus == credentialStatuses[credentialId] IN
      [err |-> Ok, status |-> credStatus.status,
       isValid |-> isValidAt(credStatus.status, credStatus.expiresAt),
       expiresAt |-> credStatus.expiresAt]

\* a faulty default: the arrays' zero values are left for an unknown id
batchDefaultZero == [status |-> Active, isValid |-> FALSE]

\* what batchCheckStatus stores at one position for a non-existent id
batchDefault == [status |-> Revoked, isValid |-> FALSE]

\* one iteration of the loop of batchCheckStatus (l.319-329)
batchEntry(credentialId) ==
    IF credentialStatuses[credentialId].exists
      THEN LET credStatus == credentialStatuses[credentialId]
               validity == (credStatus.status = Active)
           IN [status |-> credStatus.status,
               isValid |-> IF validity /\ credStatus.expiresAt > 0
                             THEN now <= credStatus.expiresAt
                           ELSE validity]
    ELSE batchDefault

batchCheckStatus(credentialIds) ==
    [err |-> Ok,
     statuses |-> [i \in 1..Len(credentialIds) |->
                      batchEntry(credentialIds[i]).status],
     validities |-> [i \in 1..Len(credentialIds) |->
                      batchEntry(credentialIds[i]).isValid]]

getStatusHistory(credentialId) == statusHistory[credentialId]

getCredentialsByIssuer(issuer) == issuerCredentials[issuer]

(* ======================= contract DIDRegistry ========================== *)
(* ------------------------------ bounds -------------------------------- *)
\* no more than MaxDidWrites DID transactions are committed in one behaviour
MaxDidWrites == 4

(* ------------------------------ inputs -------------------------------- *)
\* DID identifiers a caller may pass; "" is the empty string
DIDs == {"did:1", "did:2"}
AllDIDs == DIDs \cup {EmptyId}
\* the (context, publicKeys, services) arrays a caller may pass
DocInputs ==
    {[context |-> <<"ctx1">>, publicKey |-> << >>, service |-> << >>],
     [context |-> <<"ctx1", "ctx2">>, publicKey |-> <<"key1">>,
      service |-> <<"svc1">>]}

(* --------------------------- revert strings ---------------------------- *)
DidAlreadyExists == "DID already exists"
DidEmpty == "DID cannot be empty"
NotController == "Not a controller of this DID"
DidNotFound == "DID does not exist"
AlreadyController == "Already a controller"
InvalidController == "Invalid controller address"
NotAController == "Not a controller"
LastController == "Cannot remove last controller"

VARIABLES
    didDocuments,    \* mapping(string => DIDDocument)
    didControllers,  \* mapping(string => address[])
    controllerDIDs,  \* mapping(address => string[])
    lastDidCall,     \* the last committed DID transaction and its events
    createCount,     \* per DID: number of committed createDID calls
    didWrites        \* number of committed DID transactions

didVars == <<didDocuments, didControllers, controllerDIDs, lastDidCall,
             createCount, didWrites>>
didStorage == <<didDocuments, didControllers, controllerDIDs>>

\* the value the mapping returns for a DID that was never written
NoDocument ==
    [id |-> "", context |-> << >>, controller |-> << >>, publicKey |-> << >>,
     service |-> << >>, created |-> 0, updated |-> 0, exists |-> FALSE]

NoDidArgs ==
    [sender |-> ZeroAddress, did |-> EmptyId, controller |-> ZeroAddress,
     doc |-> [context |-> << >>, publicKey |-> << >>, service |-> << >>]]

\* the DID registry right after deployment
InitDID ==
    /\ didDocuments = [did \in AllDIDs |-> NoDocument]
    /\ didControllers = [did \in AllDIDs |-> << >>]
    /\ controllerDIDs = [a \in Addresses |-> << >>]
    /\ lastDidCall = [op |-> "deploy", args |-> NoDidArgs, events |-> << >>]
    /\ createCount = [did \in AllDIDs |-> 0]
    /\ didWrites = 0

\* a reverted call: the error, the untouched storage, no event
RevertDID(msg) ==
    [err |-> msg, docs |-> didDocuments, ctl |-> didControllers,
     rev |-> controllerDIDs, events |-> << >>]

isController(did, controller) ==
    \E i \in 1..Len(didControllers[did]) : didControllers[did][i] = controller

\* a modifier that lets every caller through
anyCaller(did, sender) == TRUE

\* modifier onlyController
onlyController(did, sender) == isController(did, sender)

\* the document createDID stores (l.435-444)
newDocument(did, doc) ==
    [id |-> did, context |-> doc.context, controller |-> << >>,
     publicKey |-> doc.publicKey, service |-> doc.service,
     created |-> now, updated |-> now, exists |-> TRUE]

\* array.push on the reverse index; the zero address has no entry to read
pushReverse(controller, did) ==
    [controllerDIDs EXCEPT ![controller] = Append(@, did)]

createDID(sender, did, doc) ==
    IF didDocuments[did].exists THEN RevertDID(DidAlreadyExists)
    ELSE IF did = EmptyId THEN RevertDID(DidEmpty)
    ELSE
      [err |-> Ok,
       docs |-> [didDocuments EXCEPT ![did] = newDocument(did, doc)],
       ctl |-> [didControllers EXCEPT ![did] = Append(@, sender)],
       rev |-> pushReverse(sender, did),
       events |-> << [name |-> "DIDCreated", did |-> did,
                      controller |-> sender, timestamp |-> now] >>]

updateDID(sender, did, doc) ==
    IF ~onlyController(did, sender) THEN RevertDID(NotController)
    ELSE IF ~didDocuments[did].exists THEN RevertDID(DidNotFound)
    ELSE
      [err |-> Ok,
       docs |-> [didDocuments EXCEPT ![did].context = doc.context,
                                     ![did].publicKey = doc.publicKey,
                                     ![did].service = doc.service,
                                     ![did].updated = now],
       ctl |-> didControllers,
       rev |-> controllerDIDs,
       events |-> << [name |-> "DIDUpdated", did |-> did,
                      controller |-> sender, timestamp |-> now] >>]

\* an addController that refuses a deactivated DID
addControllerIfActive(sender, did, controller) ==
    IF ~onlyController(did, sender) THEN RevertDID(NotController)
    ELSE IF ~didDocuments[did].exists THEN RevertDID(DidNotFound)
    ELSE IF isController(did, controller) THEN RevertDID(AlreadyController)
    ELSE IF controller = ZeroAddress THEN RevertDID(InvalidController)
    ELSE
      [err |-> Ok,
       docs |-> didDocuments,
       ctl |-> [didControllers EXCEPT ![did] = Append(@, controller)],
       rev |-> pushReverse(controller, did),
       events |-> << [name |-> "ControllerAdded", did |-> did,
                      controller |-> controller] >>]

addController(sender, did, controller) ==
    IF ~onlyController(did, sender) THEN RevertDID(NotController)
    ELSE IF isController(did, controller) THEN RevertDID(AlreadyController)
    ELSE IF controller = ZeroAddress THEN RevertDID(InvalidController)
    ELSE
      [err |-> Ok,
       docs |-> didDocuments,
       ctl |-> [didControllers EXCEPT ![did] = Append(@, controller)],
       rev |-> pushReverse(controller, did),
       events |-> << [name |-> "ControllerAdded", did |-> did,
                      controller |-> controller] >>]

\* the loops of removeController (l.507-513, 517-523): the first element
\* equal to x is overwritten by the last one and the array is popped; an
\* array without x is left as it is
swapPop(seq, x) ==
    IF \E i \in 1..Len(seq) : seq[i] = x
      THEN LET i == CHOOSE k \in 1..Len(seq) :
                       /\ seq[k] = x
                       /\ \A j \in 1..(k - 1) : seq[j] # x
           IN [j \in 1..(Len(seq) - 1) |-> IF j = i THEN seq[Len(seq)]
                                           ELSE seq[j]]
    ELSE seq

\* a check that lets the last controller go
atLeastOneController(did) == Len(didControllers[did]) > 0

\* the second require of removeController (l.504): TRUE when it passes
moreThanOneController(did) == Len(didControllers[did]) > 1

\* a removal that forgets the reverse index
keepReverse(controller, did) == controllerDIDs

\* removal from the reverse index (l.516-523)
removeReverse(controller, did) ==
    [controllerDIDs EXCEPT ![controller] = swapPop(@, did)]

removeController(sender, did, controller) ==
    IF ~onlyController(did, sender) THEN RevertDID(NotController)
    ELSE IF ~isController(did, controller) THEN RevertDID(NotAController)
    ELSE IF ~moreThanOneController(did) THEN RevertDID(LastController)
    ELSE
      [err |-> Ok,
       docs |-> didDocuments,
       ctl |-> [didControllers EXCEPT ![did] = swapPop(@, controller)],
       rev |-> removeReverse(controller, did),
       events |-> << [name |-> "ControllerRemoved", did |-> did,
                      controller |-> controller] >>]

deactivateDID(sender, did) ==
    IF ~onlyController(did, sender) THEN RevertDID(NotController)
    ELSE IF ~didDocuments[did].exists THEN RevertDID(DidNotFound)
    ELSE
      [err |-> Ok,
       docs |-> [didDocuments EXCEPT ![did].exists = FALSE,
                                     ![did].updated = now],
       ctl |-> didControllers,
       rev |-> controllerDIDs,
       events |-> << [name |-> "DIDDeactivated", did |-> did,
                      controller |-> sender, timestamp |-> now] >>]

(* ------------------------------- views --------------------------------- *)
\* a resolver without the existence check
resolveUnchecked(did) == [err |-> Ok, document |-> didDocuments[did]]

resolveDID(did) ==
    IF ~didDocuments[did].exists
      THEN [err |-> DidNotFound, document |-> NoDocument]
    ELSE [err |-> Ok, document |-> didDocuments[did]]

getControllers(did) == didControllers[did]

getDIDsByController(controller) == controllerDIDs[controller]

\* an existence check that deactivation does not reach
everExisted(did) == didDocuments[did].id # ""

didExists(did) == didDocuments[did].exists

(* ================= class IdentityAPI (packages/api) ==================== *)
(* ------------------------------ inputs -------------------------------- *)
\* the value new Date(s).getTime() has for a string that is not a date
NaN == -1

\* a record without fields: what an absent optional part contributes
NoField == [f \in {} |-> f]

\* an optional field f of an object: absent, or present with one of values
Optional(f, values) == {NoField} \cup {f :> v : v \in values}

\* the issuer DIDs and status ids the credentials under verification name
IssuerDIDs == {"did:1"}
StatusIds == {"cred:1"}

\* issuer is a DID string or an object with an id
IssuerInputs ==
    {[string |-> did] : did \in IssuerDIDs} \cup {[id |-> did] : did \in IssuerDIDs}

\* expirationDate: a date on the time line of the model, or no date at all
ExpirationInputs == (0..MaxTime) \cup {NaN}

\* proof: with a jws, or with an empty one
ProofInputs == {[jws |-> "sig"], [jws |-> ""]}

\* the credentials a verifier may be handed; every field but id may be
\* missing
Credentials ==
    {[id |-> "urn:vc:1"] @@ ctx @@ type @@ issuer @@ exp @@ status @@ proof :
        ctx \in Optional("context",
                         {<<"https://www.w3.org/2018/credentials/v1">>}),
        type \in Optional("type", {<<"VerifiableCredential">>}),
        issuer \in Optional("issuer", IssuerInputs),
        exp \in Optional("expirationDate", ExpirationInputs),
        status \in Optional("credentialStatus",
                            {[id |-> id] : id \in StatusIds}),
        proof \in Optional("proof", ProofInputs)}

(* -------------------------- error and warning texts --------------------- *)
InvalidStructure == "Invalid credential structure"
CredentialExpired == "Credential has expired"
IssuerNotFound == "Issuer DID not found"
CredentialRevoked == "Credential has been revoked or is invalid"
StatusWarning == "Could not verify credential status on blockchain"
ProofWarning == "Could not verify credential proof"
NoProofWarning == "Credential has no proof"

VARIABLES
    pc,             \* where the verifyCredential call in progress stands
    credential,     \* its argument
    errors,         \* its local errors
    warnings,       \* its local warnings
    calls,          \* the collaborator calls it has made, in order
    didResolution,  \* what this.resolveDID(issuerDID) returned
    result          \* the VerificationResult it returns

verifyVars ==
    <<pc, credential, errors, warnings, calls, didResolution, result>>

NoResolution == [did |-> "", exists |-> FALSE]
NoResult == [returned |-> FALSE]

\* no verifyCredential call is in progress
InitVerify ==
    /\ pc = "idle"
    /\ credential = [id |-> ""]
    /\ errors = << >>
    /\ warnings = << >>
    /\ calls = << >>
    /\ didResolution = NoResolution
    /\ result = NoResult

\* l.94: @context, type and issuer are all there
structureOk(c) == {"context", "type", "issuer"} \subseteq DOMAIN c

\* a date comparison: false when a side is not a date
dateLess(a, b) == a # NaN /\ b # NaN /\ a < b

\* an expiration check that lets every credential through
neverExpired(c) == FALSE

\* l.100-106: expirationDate is there and lies before the current time
isExpired(c) ==
    "expirationDate" \in DOMAIN c /\ dateLess(c.expirationDate, now)

\* l.109-111
issuerDID(c) ==
    IF "string" \in DOMAIN c.issuer THEN c.issuer.string ELSE c.issuer.id

\* DIDCore.verifyCredential (did-core/src/index.ts l.198-217)
DIDCore_verifyCredential(c, issuerPublicKey) ==
    IF "proof" \notin DOMAIN c THEN FALSE
    ELSE c.proof.jws # ""

\* l.136: publicKey holds strings, which have no publicKeyJwk
issuerPublicKey(document) == ""

\* an early return: { valid: false, errors }
failed(errs) == [valid |-> FALSE, errors |-> errs]

\* a final return that always reports both lists
verdictWithLists(c, errs, warns) ==
    [valid |-> Len(errs) = 0, credentialId |-> c.id, issuer |-> issuerDID(c),
     errors |-> errs, warnings |-> warns]

\* the final return (l.147-153); empty lists are left out
verdict(c, errs, warns) ==
    [valid |-> Len(errs) = 0, credentialId |-> c.id, issuer |-> issuerDID(c)]
    @@ (IF Len(errs) > 0 THEN "errors" :> errs ELSE NoField)
    @@ (IF Len(warns) > 0 THEN "warnings" :> warns ELSE NoField)

(* ------------ the API's calls, each against one registry state ---------- *)
\* no more than MaxPresented credentials in one presentation or batch
MaxPresented == 2

\* which registry call of one verifyCredential or resolveDID fails (rejects
\* or times out), if one does
Failures == {"none", "didExists", "resolveDID", "checkStatus"}

\* a resolver that finds every DID
resolvesAnyDID(did, failure) ==
    [did |-> did, document |-> NoDocument, exists |-> TRUE]

\* IdentityAPI.resolveDID (l.50-82)
IdentityAPI_resolveDID(did, failure) ==
    IF failure = "didExists" THEN [did |-> did, exists |-> FALSE]
    ELSE IF ~didExists(did) THEN [did |-> did, exists |-> FALSE]
    ELSE IF failure = "resolveDID" \/ resolveDID(did).err # Ok
      THEN [did |-> did, exists |-> FALSE]
    ELSE [did |-> did, document |-> resolveDID(did).document,
          exists |-> TRUE]

\* a proof check that reports nothing
proofSilent(c, didResolution_) == << >>

\* the warnings of the proof check (l.135-145)
proofWarnings(c, didResolution_) ==
    IF "proof" \in DOMAIN c
      THEN IF DIDCore_verifyCredential(
                  c, issuerPublicKey(didResolution_.document))
             THEN << >>
           ELSE <<ProofWarning>>
    ELSE <<NoProofWarning>>

\* IdentityAPI.verifyCredential (l.89-154)
verifyCredential(c, failure) ==
    IF ~structureOk(c) THEN failed(<<InvalidStructure>>)
    ELSE IF isExpired(c) THEN failed(<<CredentialExpired>>)
    ELSE LET didResolution_ == IdentityAPI_resolveDID(issuerDID(c), failure)
         IN IF ~didResolution_.exists THEN failed(<<IssuerNotFound>>)
            ELSE IF "credentialStatus" \notin DOMAIN c
              THEN verdict(c, << >>, proofWarnings(c, didResolution_))
            ELSE LET r == checkStatus(c.credentialStatus.id)
                 IN IF failure = "checkStatus" \/ r.err # Ok
                      THEN verdict(c, << >>,
                                   <<StatusWarning>>
                                     \o proofWarnings(c, didResolution_))
                    ELSE IF ~r.isValid THEN failed(<<CredentialRevoked>>)
                    ELSE verdict(c, << >>, proofWarnings(c, didResolution_))

\* the presentations a verifier may be handed
InvalidPresentation == "Invalid presentation structure"
HolderNotFound == "Holder DID not found"
NoProofOrHolder == "Presentation has no proof or holder"

\* l.180: `${invalidCredentials.length} credential(s) are invalid`
invalidCount(n) == ToString(n) \o " credential(s) are invalid"

\* an aggregation that reports the errors of the first invalid result only
firstInvalidErrors(results) ==
    IF results = << >> THEN << >> ELSE Head(results).errors

\* invalidCredentials.forEach(... errors.push(...result.errors)) (l.181-185)
RECURSIVE invalidErrors(_)
invalidErrors(results) ==
    IF results = << >> THEN << >>
    ELSE (IF ~Head(results).valid /\ "errors" \in DOMAIN Head(results)
            THEN Head(results).errors ELSE << >>)
         \o invalidErrors(Tail(results))

\* credentials.map(cred => this.verifyCredential(cred)) under Promise.all
\* (l.174-176, 238-240)
verifyAll(credentials, failures) ==
    [i \in 1..Len(credentials) |->
        verifyCredential(credentials[i], failures[i])]

\* IdentityAPI.verifyPresentation (l.161-204)
verifyPresentation(p, failures, holderFailure) ==
    IF ~({"context", "verifiableCredential"} \subseteq DOMAIN p)
      THEN failed(<<InvalidPresentation>>)
    ELSE LET credentialResults == verifyAll(p.verifiableCredential, failures)
             invalidCredentials ==
                 SelectSeq(credentialResults, LAMBDA r : ~r.valid)
             errs == IF Len(invalidCredentials) > 0
                       THEN <<invalidCount(Len(invalidCredentials))>>
                            \o invalidErrors(invalidCredentials)
                     ELSE << >>
             warns == IF {"proof", "holder"} \subseteq DOMAIN p
                        THEN IF ~IdentityAPI_resolveDID(
                                     p.holder, holderFailure).exists
                               THEN <<HolderNotFound>>
                             ELSE << >>
                      ELSE <<NoProofOrHolder>>
         IN [valid |-> Len(errs) = 0]
            @@ (IF "holder" \in DOMAIN p THEN "holder" :> p.holder
                ELSE NoField)
            @@ (IF Len(errs) > 0 THEN "errors" :> errs ELSE NoField)
            @@ (IF Len(warns) > 0 THEN "warnings" :> warns ELSE NoField)

\* a batch that gives up every credential once one is invalid
batchAllOrNothing(credentials, failures) ==
    LET results == verifyAll(credentials, failures)
    IN IF \E i \in 1..Len(results) : ~results[i].valid
         THEN [i \in 1..Len(results) |->
                  [valid |-> FALSE, errors |-> <<InvalidStructure>>]]
       ELSE results

\* IdentityAPI.batchVerifyCredentials (l.235-241)
batchVerifyCredentials(credentials, failures) ==
    verifyAll(credentials, failures)

StatusCheckFailed == "Failed to check credential status"

\* IdentityAPI.checkCredentialStatus (l.211-228)
checkCredentialStatus(credentialId, failure) ==
    LET r == checkStatus(credentialId)
    IN IF failure = "checkStatus" \/ r.err # Ok
         THEN [err |-> StatusCheckFailed]
       ELSE [err |-> Ok, status |-> r.status, isValid |-> r.isValid,
             expiresAt |-> r.expiresAt]

(* ---------------------------- state machine ---------------------------- *)
NoArgs ==
    [sender |-> ZeroAddress, id |-> EmptyId,
     newStatus |-> Active, reason |-> "", expiresAt |-> 0]

Init ==
    /\ credentialStatuses = [id \in AllIds |-> NoCredential]
    /\ issuerCredentials = [a \in Addresses |-> << >>]
    /\ statusHistory = [id \in AllIds |-> << >>]
    /\ now = 1
    /\ lastCall = [op |-> "deploy", args |-> NoArgs, events |-> << >>]
    /\ issueCount = [id \in AllIds |-> 0]
    /\ changeCount = [id \in AllIds |-> 0]
    /\ InitDID
    /\ InitVerify

RECURSIVE SumOver(_, _)
SumOver(f, S) ==
    IF S = {} THEN 0
    ELSE LET x == CHOOSE y \in S : TRUE IN f[x] + SumOver(f, S \ {x})

\* the number of transactions committed so far
Writes == SumOver(issueCount, AllIds) + SumOver(changeCount, AllIds)

\* a transaction with outcome r: it commits, or it reverts and nothing
\* changes
Transact(op, args, r) ==
    IF r.err = Ok
      THEN /\ Writes < MaxWrites
           /\ credentialStatuses' = r.cs
           /\ issuerCredentials' = r.ic
           /\ statusHistory' = r.sh
           /\ lastCall' = [op |-> op, args |-> args, events |-> r.events]
           /\ issueCount' = IF op = "issueCredential"
                              THEN [issueCount EXCEPT ![args.id] = @ + 1]
                            ELSE issueCount
           /\ changeCount' = IF op # "issueCredential"
                               THEN [changeCount EXCEPT ![args.id] = @ + 1]
                             ELSE changeCount
           /\ UNCHANGED <<now, didVars, verifyVars>>
    ELSE UNCHANGED <<vars, didVars, verifyVars>>

\* a view call with answer r: nothing changes
View(r) ==
    /\ r.err \in {Ok, NotFound}
    /\ UNCHANGED <<vars, didVars, verifyVars>>

IssueCredential ==
    \E sender \in Addresses, id \in AllIds, expiresAt \in ExpiryInputs :
        Transact("issueCredential",
                 [NoArgs EXCEPT !.sender = sender, !.id = id,
                                !.expiresAt = expiresAt],
                 issueCredential(sender, id, expiresAt))

UpdateStatus ==
    \E sender \in Addresses, id \in AllIds, newStatus \in Status,
       reason \in Reasons :
        Transact("updateStatus",
                 [NoArgs EXCEPT !.sender = sender, !.id = id,
                                !.newStatus = newStatus, !.reason = reason],
                 updateStatus(sender, id, newStatus, reason))

RevokeCredential ==
    \E sender \in Addresses, id \in AllIds, reason \in Reasons :
        Transact("revokeCredential",
                 [NoArgs EXCEPT !.sender = sender, !.id = id,
                                !.newStatus = Revoked, !.reason = reason],
                 revokeCredential(sender, id, reason))

SuspendCredential ==
    \E sender \in Addresses, id \in AllIds, reason \in Reasons :
        Transact("suspendCredential",
                 [NoArgs EXCEPT !.sender = sender, !.id = id,
                                !.newStatus = Suspended, !.reason = reason],
                 suspendCredential(sender, id, reason))

ReactivateCredential ==
    \E sender \in Addresses, id \in AllIds :
        Transact("reactivateCredential",
                 [NoArgs EXCEPT !.sender = sender, !.id = id,
                                !.newStatus = Active,
                                !.reason = "Credential reactivated"],
                 reactivateCredential(sender, id))

CheckStatus ==
    \E id \in AllIds : View(checkStatus(id))

BatchInputs ==
    UNION {[1..n -> AllIds] : n \in 0..MaxBatch}

BatchCheckStatus ==
    \E ids \in BatchInputs : View(batchCheckStatus(ids))

\* a later block: block.timestamp grows
Mine ==
    /\ now < MaxTime
    /\ now' = now + 1
    /\ lastCall' = [op |-> "mine", args |-> NoArgs, events |-> << >>]
    /\ UNCHANGED <<credentialStatuses, issuerCredentials, statusHistory,
                   issueCount, changeCount, didVars, verifyVars>>

Next ==
    \/ IssueCredential
    \/ UpdateStatus
    \/ RevokeCredential
    \/ SuspendCredential
    \/ ReactivateCredential
    \/ CheckStatus
    \/ BatchCheckStatus
    \/ Mine

Spec == Init /\ [][Next]_vars

TypeOK ==
    /\ \A id \in AllIds :
         /\ credentialStatuses[id].status \in Status
         /\ credentialStatuses[id].issuer \in Addresses \cup {ZeroAddress}
    /\ now \in 1..MaxTime


(* ---------------------- state machine of DIDRegistry -------------------- *)
\* a DID transaction with outcome r: it commits, or it reverts and nothing
\* changes
TransactDID(op, args, r) ==
    IF r.err = Ok
      THEN /\ didWrites < MaxDidWrites
           /\ didDocuments' = r.docs
           /\ didControllers' = r.ctl
           /\ controllerDIDs' = r.rev
           /\ lastDidCall' = [op |-> op, args |-> args, events |-> r.events]
           /\ createCount' = IF op = "createDID"
                               THEN [createCount EXCEPT ![args.did] = @ + 1]
                             ELSE createCount
           /\ didWrites' = didWrites + 1
           /\ UNCHANGED <<vars, verifyVars>>
    ELSE UNCHANGED <<vars, didVars, verifyVars>>

\* a view call of the DID registry that answers: nothing changes
ViewDID(answered) ==
    /\ answered
    /\ UNCHANGED <<vars, didVars, verifyVars>>

CreateDID ==
    \E sender \in Addresses, did \in AllDIDs, doc \in DocInputs :
        TransactDID("createDID",
                    [NoDidArgs EXCEPT !.sender = sender, !.did = did,
                                      !.doc = doc],
                    createDID(sender, did, doc))

UpdateDID ==
    \E sender \in Addresses, did \in AllDIDs, doc \in DocInputs :
        TransactDID("updateDID",
                    [NoDidArgs EXCEPT !.sender = sender, !.did = did,
                                      !.doc = doc],
                    updateDID(sender, did, doc))

AddController ==
    \E sender \in Addresses, did \in AllDIDs,
       controller \in Addresses \cup {ZeroAddress} :
        TransactDID("addController",
                    [NoDidArgs EXCEPT !.sender = sender, !.did = did,
                                      !.controller = controller],
                    addController(sender, did, controller))

RemoveController ==
    \E sender \in Addresses, did \in AllDIDs,
       controller \in Addresses \cup {ZeroAddress} :
        TransactDID("removeController",
                    [NoDidArgs EXCEPT !.sender = sender, !.did = did,
                                      !.controller = controller],
                    removeController(sender, did, controller))

DeactivateDID ==
    \E sender \in Addresses, did \in AllDIDs :
        TransactDID("deactivateDID",
                    [NoDidArgs EXCEPT !.sender = sender, !.did = did],
                    deactivateDID(sender, did))

ResolveDID ==
    \E did \in AllDIDs : ViewDID(resolveDID(did).err \in {Ok, DidNotFound})

DidExists ==
    \E did \in AllDIDs : ViewDID(didExists(did) \in BOOLEAN)

IsController ==
    \E did \in AllDIDs, a \in Addresses :
        ViewDID(isController(did, a) \in BOOLEAN)

\* a later block: block.timestamp grows
MineDID ==
    /\ now < MaxTime
    /\ now' = now + 1
    /\ lastDidCall' = [op |-> "mine", args |-> NoDidArgs, events |-> << >>]
    /\ UNCHANGED <<credentialStatuses, issuerCredentials, statusHistory,
                   lastCall, issueCount, changeCount, didDocuments,
                   didControllers, controllerDIDs, createCount, didWrites,
                   verifyVars>>

NextDID ==
    \/ CreateDID
    \/ UpdateDID
    \/ AddController
    \/ RemoveController
    \/ DeactivateDID
    \/ ResolveDID
    \/ DidExists
    \/ IsController
    \/ MineDID

SpecDID == Init /\ [][NextDID]_<<vars, didVars>>

(* ---------------------- state machine of IdentityAPI -------------------- *)
\* the call in progress moves on: to its next await, or to its return
Goto(p, errs, warns, res) ==
    /\ pc' = p
    /\ errors' = errs
    /\ warnings' = warns
    /\ result' = res

\* l.139-153: the code from the proof check to the return
proofStage(warns) ==
    IF "proof" \in DOMAIN credential'
      THEN Goto("verifyProof", errors, warns, NoResult)
    ELSE LET w == Append(warns, NoProofWarning)
         IN Goto("done", errors, w, verdict(credential', errors, w))

\* l.121-133: the code from the status check on
statusStage ==
    IF "credentialStatus" \in DOMAIN credential'
      THEN Goto("checkStatus", errors, warnings, NoResult)
    ELSE proofStage(warnings)

\* verifyCredential is called (l.89-113): the checks up to the first await
VerifyCredential ==
    /\ pc = "idle"
    /\ \E c \in Credentials :
          /\ credential' = c
          /\ IF ~structureOk(c)
               THEN Goto("done", <<InvalidStructure>>, << >>,
                         failed(<<InvalidStructure>>))
             ELSE IF isExpired(c)
               THEN Goto("done", <<CredentialExpired>>, << >>,
                         failed(<<CredentialExpired>>))
             ELSE Goto("didExists", << >>, << >>, NoResult)
    /\ calls' = << >>
    /\ didResolution' = NoResolution
    /\ UNCHANGED <<vars, didVars>>

\* this.didRegistry.didExists answers or throws (l.52-59, 76-81)
DidExistsReturns ==
    /\ pc = "didExists"
    /\ calls' = Append(calls, "didExists")
    /\ \E answered \in BOOLEAN :
          IF answered /\ didExists(issuerDID(credential))
            THEN Goto("resolveDID", errors, warnings, NoResult)
          ELSE Goto("done", <<IssuerNotFound>>, warnings,
                    failed(<<IssuerNotFound>>))
    /\ UNCHANGED <<vars, didVars, credential, didResolution>>

\* this.didRegistry.resolveDID answers, reverts or throws (l.61-81, 113-118)
ResolveDIDReturns ==
    /\ pc = "resolveDID"
    /\ calls' = Append(calls, "resolveDID")
    /\ credential' = credential
    /\ \E answered \in BOOLEAN :
          LET r == resolveDID(issuerDID(credential))
          IN IF answered /\ r.err = Ok
               THEN /\ didResolution' = [did |-> issuerDID(credential),
                                         document |-> r.document,
                                         exists |-> TRUE]
                    /\ statusStage
             ELSE /\ didResolution' = [did |-> issuerDID(credential),
                                       exists |-> FALSE]
                  /\ Goto("done", <<IssuerNotFound>>, warnings,
                          failed(<<IssuerNotFound>>))
    /\ UNCHANGED <<vars, didVars>>

\* a status step that treats a failed lookup like a negative answer
CheckStatusFailClosed ==
    /\ pc = "checkStatus"
    /\ calls' = Append(calls, "checkStatus")
    /\ credential' = credential
    /\ \E answered \in BOOLEAN :
          LET r == checkStatus(credential.credentialStatus.id)
          IN IF ~answered \/ r.err # Ok \/ ~r.isValid
               THEN Goto("done", <<CredentialRevoked>>, warnings,
                         failed(<<CredentialRevoked>>))
             ELSE proofStage(warnings)
    /\ UNCHANGED <<vars, didVars, didResolution>>

\* a status step that goes on whatever the registry answers
CheckStatusAdvisory ==
    /\ pc = "checkStatus"
    /\ calls' = Append(calls, "checkStatus")
    /\ credential' = credential
    /\ \E answered \in BOOLEAN :
          LET r == checkStatus(credential.credentialStatus.id)
          IN IF ~answered \/ r.err # Ok
               THEN proofStage(Append(warnings, StatusWarning))
             ELSE proofStage(warnings)
    /\ UNCHANGED <<vars, didVars, didResolution>>

\* this.credentialRegistry.checkStatus answers, reverts or throws
\* (l.121-133)
CheckStatusReturns ==
    /\ pc = "checkStatus"
    /\ calls' = Append(calls, "checkStatus")
    /\ credential' = credential
    /\ \E answered \in BOOLEAN :
          LET r == checkStatus(credential.credentialStatus.id)
          IN IF ~answered \/ r.err # Ok
               THEN proofStage(Append(warnings, StatusWarning))
             ELSE IF ~r.isValid
               THEN Goto("done", <<CredentialRevoked>>, warnings,
                         failed(<<CredentialRevoked>>))
             ELSE proofStage(warnings)
    /\ UNCHANGED <<vars, didVars, didResolution>>

\* DIDCore.verifyCredential answers (l.135-143) and the call returns
VerifyProofReturns ==
    /\ pc = "verifyProof"
    /\ calls' = Append(calls, "DIDCore.verifyCredential")
    /\ LET proofValid ==
              DIDCore_verifyCredential(
                  credential, issuerPublicKey(didResolution.document))
           w == IF proofValid THEN warnings
                ELSE Append(warnings, ProofWarning)
       IN Goto("done", errors, w, verdict(credential, errors, w))
    /\ UNCHANGED <<vars, didVars, credential, didResolution>>

\* a return after which the warnings of the call stay in the engine
ReturnKeepsWarnings ==
    /\ pc = "done"
    /\ pc' = "idle"
    /\ credential' = [id |-> ""]
    /\ errors' = << >>
    /\ calls' = << >>
    /\ didResolution' = NoResolution
    /\ result' = NoResult
    /\ UNCHANGED <<vars, didVars, warnings>>

\* the caller has the result; the API keeps nothing of the call
Return ==
    /\ pc = "done"
    /\ pc' = "idle"
    /\ credential' = [id |-> ""]
    /\ errors' = << >>
    /\ warnings' = << >>
    /\ calls' = << >>
    /\ didResolution' = NoResolution
    /\ result' = NoResult
    /\ UNCHANGED <<vars, didVars>>

\* the registries the API reads are being written meanwhile, here by one
\* issuer; the moment a call returns is no step of theirs
Issuer == "0xA"

RegistryCreateDID ==
    /\ pc # "done"
    /\ \E did \in IssuerDIDs, doc \in DocInputs :
          /\ doc.publicKey = << >>
          /\ TransactDID("createDID",
                         [NoDidArgs EXCEPT !.sender = Issuer, !.did = did,
                                           !.doc = doc],
                         createDID(Issuer, did, doc))

RegistryDeactivateDID ==
    /\ pc # "done"
    /\ \E did \in IssuerDIDs :
          TransactDID("deactivateDID",
                      [NoDidArgs EXCEPT !.sender = Issuer, !.did = did],
                      deactivateDID(Issuer, did))

RegistryIssueCredential ==
    /\ pc # "done"
    /\ \E id \in StatusIds, expiresAt \in ExpiryInputs :
          Transact("issueCredential",
                   [NoArgs EXCEPT !.sender = Issuer, !.id = id,
                                  !.expiresAt = expiresAt],
                   issueCredential(Issuer, id, expiresAt))

RegistryRevokeCredential ==
    /\ pc # "done"
    /\ \E id \in StatusIds, reason \in Reasons :
          Transact("revokeCredential",
                   [NoArgs EXCEPT !.sender = Issuer, !.id = id,
                                  !.reason = reason],
                   revokeCredential(Issuer, id, reason))

RegistryMine ==
    /\ pc # "done"
    /\ Mine

NextVerify ==
    \/ VerifyCredential
    \/ DidExistsReturns
    \/ ResolveDIDReturns
    \/ CheckStatusReturns
    \/ VerifyProofReturns
    \/ Return
    \/ RegistryCreateDID
    \/ RegistryDeactivateDID
    \/ RegistryIssueCredential
    \/ RegistryRevokeCredential
    \/ RegistryMine

SpecVerify == Init /\ [][NextVerify]_<<vars, didVars, verifyVars>>

(* --------- IdentityAPI: whole calls against the registries' state ------- *)
\* the sequences over S of at most n elements
Lists(S, n) == UNION {[1..k -> S] : k \in 0..n}

\* a complete credential with an accepted proof and no expiration date
CompleteCredential ==
    [id |-> "urn:vc:1",
     context |-> <<"https://www.w3.org/2018/credentials/v1">>,
     type |-> <<"VerifiableCredential">>,
     issuer |-> [string |-> "did:1"],
     proof |-> [jws |-> "sig"]]

\* the credentials presentations and batches are made of: one without
\* issuer, one expired, one with an issuer and a status entry to look up
PresentedCredentials ==
    {[f \in DOMAIN CompleteCredential \ {"issuer"} |-> CompleteCredential[f]],
     CompleteCredential @@ ("expirationDate" :> 0),
     CompleteCredential @@ ("credentialStatus" :> [id |-> "cred:1"])}

\* in a presentation or a batch: the DID lookup of a call fails, or none does
LookupFailures == {"none", "didExists"}

Presentations ==
    {ctx @@ vcs @@ proof @@ holder :
        ctx \in Optional("context",
                         {<<"https://www.w3.org/2018/credentials/v1">>}),
        vcs \in Optional("verifiableCredential",
                         Lists(PresentedCredentials, MaxPresented)),
        proof \in Optional("proof", {[jws |-> "sig"]}),
        holder \in Optional("holder", IssuerDIDs)}

\* one failure choice for each credential of a list: only a call that gets
\* to its DID lookup has one to fail
FailuresFor(credentials) ==
    {failures \in [1..Len(credentials) -> LookupFailures] :
        \A i \in 1..Len(credentials) :
            failures[i] # "none"
              => structureOk(credentials[i]) /\ ~isExpired(credentials[i])}

\* the same for the embedded credentials of a presentation
EmbeddedFailuresFor(p) ==
    IF {"context", "verifiableCredential"} \subseteq DOMAIN p
      THEN FailuresFor(p.verifiableCredential)
    ELSE {<< >>}

\* the failure choices of the holder lookup, when there is one
HolderFailuresFor(p) ==
    IF {"context", "verifiableCredential", "proof", "holder"}
          \subseteq DOMAIN p
      THEN LookupFailures
    ELSE {"none"}

\* a call of the API returns to its caller: the API keeps nothing of it and
\* writes to no registry
Returns(answer) ==
    /\ answer
    /\ UNCHANGED <<vars, didVars, verifyVars>>

ResolveDIDCall ==
    \E did \in IssuerDIDs, failure \in Failures :
        Returns(IdentityAPI_resolveDID(did, failure).exists \in BOOLEAN)

VerifyCredentialCall ==
    \E c \in Credentials, failure \in Failures :
        Returns(verifyCredential(c, failure).valid \in BOOLEAN)

VerifyPresentationCall ==
    \E p \in Presentations :
        \E failures \in EmbeddedFailuresFor(p),
           holderFailure \in HolderFailuresFor(p) :
            Returns(verifyPresentation(p, failures, holderFailure).valid
                       \in BOOLEAN)

BatchVerifyCredentialsCall ==
    \E credentials \in Lists(PresentedCredentials, MaxPresented) :
        \E failures \in FailuresFor(credentials) :
            Returns(Len(batchVerifyCredentials(credentials, failures))
                       = Len(credentials))

CheckCredentialStatusCall ==
    \E id \in StatusIds, failure \in Failures :
        Returns(checkCredentialStatus(id, failure).err
                   \in {Ok, StatusCheckFailed})

NextAPI ==
    \/ ResolveDIDCall
    \/ VerifyCredentialCall
    \/ VerifyPresentationCall
    \/ BatchVerifyCredentialsCall
    \/ CheckCredentialStatusCall
    \/ RegistryCreateDID
    \/ RegistryDeactivateDID
    \/ RegistryIssueCredential
    \/ RegistryRevokeCredential
    \/ RegistryMine

SpecAPI == Init /\ [][NextAPI]_<<vars, didVars, verifyVars>>

(* ------------------ the two registries side by side -------------------- *)
\* the steps of one behaviour of the two registries: committed writes and
\* mined blocks
MaxAuditSteps == 3

\* a transaction or a view of either registry (each is its own contract,
\* l.9 and l.343), or a later block
NextAudit ==
    /\ Writes + didWrites + (now - 1) < MaxAuditSteps
    /\ \/ Next
       \/ NextDID

SpecAudit == Init /\ [][NextAudit]_<<vars, didVars>>

(* ------------------------------ properties ----------------------------- *)
StatusOps ==
    {"updateStatus", "revokeCredential", "suspendCredential",
     "reactivateCredential"}

\* the outcomes, in the current state, of every status call sender can make
\* on id
StatusCalls(sender, id) ==
    {updateStatus(sender, id, newStatus, reason) :
        newStatus \in Status, reason \in Reasons}
    \cup {revokeCredential(sender, id, reason) : reason \in Reasons}
    \cup {suspendCredential(sender, id, reason) : reason \in Reasons}
    \cup {reactivateCredential(sender, id)}

\* the outcomes, in the current state, of every issueCredential call on id
IssueCalls(id) ==
    {issueCredential(sender, id, expiresAt) :
        sender \in Addresses, expiresAt \in ExpiryInputs}

\* the call with outcome r fails and leaves the record, the history and
\* the issuer index as they are
Refused(r) ==
    /\ r.err # Ok
    /\ r.cs = credentialStatuses
    /\ r.ic = issuerCredentials
    /\ r.sh = statusHistory
    /\ r.events = << >>

\* the call with outcome r is refused with the error e
Rejected(r, e) == Refused(r) /\ r.err = e

\* C1: Revoked is terminal: a credential whose stored status is Revoked
\* keeps that status over every step, and checkStatus and batchCheckStatus
\* keep reporting Revoked and isValid = false for it.
C1_RevokedIsTerminal ==
    [][\A id \in CredentialIds :
          (credentialStatuses[id].exists
             /\ credentialStatuses[id].status = Revoked)
          => /\ credentialStatuses'[id].status = Revoked
             /\ checkStatus(id)'.status = Revoked
             /\ ~checkStatus(id)'.isValid
             /\ batchCheckStatus(<<id>>)'.statuses[1] = Revoked
             /\ ~batchCheckStatus(<<id>>)'.validities[1]]_vars

\* the transitions of the documented state machine
AllowedTransitions ==
    {<<Active, Revoked>>, <<Active, Suspended>>,
     <<Suspended, Active>>, <<Suspended, Revoked>>}

\* C2: every committed change of an existing credential's stored status is
\* one of Active->Revoked, Active->Suspended, Suspended->Active,
\* Suspended->Revoked.
C2_OnlyFourTransitions ==
    [][\A id \in CredentialIds :
          (credentialStatuses[id].exists
             /\ credentialStatuses'[id].status # credentialStatuses[id].status)
          => <<credentialStatuses[id].status, credentialStatuses'[id].status>>
                \in AllowedTransitions]_vars

\* C3: the stored status of every credential differs from Expired in every
\* reachable state.
C3_NeverStoredExpired ==
    \A id \in AllIds : credentialStatuses[id].status # Expired

\* C4: every status call on an existing credential by anyone but its stored
\* issuer fails with Unauthorized and leaves the record, the history and
\* the issuer index as they were; the last committed status change was made
\* by the issuer.
C4_OnlyIssuerTransitions ==
    /\ \A id \in AllIds, sender \in Addresses :
          (credentialStatuses[id].exists
             /\ sender # credentialStatuses[id].issuer)
          => \A r \in StatusCalls(sender, id) : Rejected(r, Unauthorized)
    /\ lastCall.op \in StatusOps
          => lastCall.args.sender
                = credentialStatuses[lastCall.args.id].issuer

\* C4 happens: a non-issuer's revokeCredential on an Active credential is
\* rejected.
C4_Witness ==
    \E id \in CredentialIds, sender \in Addresses :
        /\ credentialStatuses[id].exists
        /\ credentialStatuses[id].status = Active
        /\ sender # credentialStatuses[id].issuer
        /\ revokeCredential(sender, id, "key leaked").err = Unauthorized

\* C5: issueCredential commits at most once per id; every call on an id
\* that was issued fails with AlreadyExists and leaves the record, the
\* history and the issuer index as they were.
C5_IssuedAtMostOnce ==
    \A id \in AllIds :
        /\ issueCount[id] <= 1
        /\ issueCount[id] = 1
             => \A r \in IssueCalls(id) : Rejected(r, AlreadyExists)

\* C5 happens: an id was issued, and another caller's issueCredential on it
\* is rejected.
C5_Witness ==
    \E id \in CredentialIds, sender \in Addresses :
        /\ issueCount[id] = 1
        /\ lastCall.op = "issueCredential"
        /\ lastCall.args.id = id
        /\ sender # credentialStatuses[id].issuer
        /\ issueCredential(sender, id, 0).err = AlreadyExists

\* the credential is past its expiry at the current block
PastExpiry(id) ==
    /\ credentialStatuses[id].exists
    /\ credentialStatuses[id].expiresAt > 0
    /\ now > credentialStatuses[id].expiresAt

\* C6: every status call on a credential that is past its expiry fails,
\* also the issuer's, and leaves the record and the history as they were.
C6_ExpiredIsFrozen ==
    \A id \in AllIds, sender \in Addresses :
        PastExpiry(id) => \A r \in StatusCalls(sender, id) : Refused(r)

\* C6 happens: the issuer's revocation of an Active credential that expired
\* after it was issued is rejected by the expiration check.
C6_Witness ==
    \E id \in CredentialIds :
        /\ PastExpiry(id)
        /\ credentialStatuses[id].issuedAt <= credentialStatuses[id].expiresAt
        /\ credentialStatuses[id].status = Active
        /\ revokeCredential(credentialStatuses[id].issuer, id,
                            "key leaked").err = ExpiredError

\* C7: checkStatus on an issued credential answers the stored status and
\* expiresAt and isValid = (status = Active) /\ (expiresAt = 0 \/ now <=
\* expiresAt); on an id that was never issued it fails with NotFound.
C7_CheckStatusAnswer ==
    \A id \in AllIds :
      LET c == credentialStatuses[id]
          r == checkStatus(id)
      IN IF issueCount[id] > 0
           THEN /\ r.err = Ok
                /\ r.status = c.status
                /\ r.expiresAt = c.expiresAt
                /\ r.isValid <=> (c.status = Active
                                  /\ (c.expiresAt = 0 \/ now <= c.expiresAt))
         ELSE r.err = NotFound

\* C7 happens: checkStatus answers invalid for a credential that was issued
\* with an expiresAt already in the past and is still stored Active, and
\* valid for an Active credential without expiry.
C7_Witness ==
    \E id, other \in CredentialIds :
        /\ checkStatus(id).err = Ok
        /\ checkStatus(id).status = Active
        /\ ~checkStatus(id).isValid
        /\ credentialStatuses[id].expiresAt > 0
        /\ credentialStatuses[id].issuedAt > credentialStatuses[id].expiresAt
        /\ checkStatus(other).expiresAt = 0
        /\ checkStatus(other).isValid

\* C8: reactivateCredential commits only for the issuer of a Suspended
\* credential that is not past expiry, and then the status is Active and
\* checkStatus answers isValid = true; the issuer's call on an Active or a
\* Revoked credential fails with "Credential is not suspended" and changes
\* nothing.
C8_ReactivateOnlySuspended ==
    /\ lastCall.op = "reactivateCredential" =>
         LET id == lastCall.args.id IN
         /\ credentialStatuses[id].exists
         /\ credentialStatuses[id].issuer = lastCall.args.sender
         /\ lastCall.events[1].oldStatus = Suspended
         /\ credentialStatuses[id].status = Active
         /\ checkStatus(id).err = Ok
         /\ checkStatus(id).isValid
    /\ \A id \in AllIds, sender \in Addresses :
         LET c == credentialStatuses[id]
             r == reactivateCredential(sender, id)
         IN /\ r.err = Ok =>
                 /\ c.exists
                 /\ c.issuer = sender
                 /\ c.status = Suspended
                 /\ ~PastExpiry(id)
                 /\ r.cs[id].status = Active
            /\ (c.exists /\ c.issuer = sender
                  /\ c.status \in {Active, Revoked})
                 => Rejected(r, NotSuspended)

\* C8 happens: the issuer has reactivated a suspended credential, which is
\* valid again, and a further reactivateCredential on it is rejected.
C8_Witness ==
    /\ lastCall.op = "reactivateCredential"
    /\ checkStatus(lastCall.args.id).isValid
    /\ reactivateCredential(lastCall.args.sender, lastCall.args.id).err
          = NotSuspended

IsPrefix(s, t) ==
    /\ Len(s) <= Len(t)
    /\ \A i \in 1..Len(s) : s[i] = t[i]

\* C9: the history of every id is append-only: each step keeps the old
\* history as a prefix; a committed issueCredential appends one Active
\* entry, a committed status change appends one entry with the new status,
\* the caller and the reason, nothing else changes a history (a failed call
\* takes no step), and the length is 1 plus the number of committed status
\* changes.
C9_HistoryAppendOnly ==
    [][\A id \in AllIds :
            LET h == statusHistory[id]
                g == statusHistory'[id]
            IN /\ IsPrefix(h, g)
               /\ Len(g) = issueCount'[id] + changeCount'[id]
               /\ credentialStatuses'[id].exists
                    => Len(g) = 1 + changeCount'[id]
               /\ Len(g) > 0 => g[1].status = Active
               /\ g # h =>
                    /\ Len(g) = Len(h) + 1
                    /\ lastCall'.args.id = id
                    /\ g[Len(g)].updatedBy = lastCall'.args.sender
                    /\ g[Len(g)].timestamp = now
                    /\ g[Len(g)].status = credentialStatuses'[id].status
                    /\ IF lastCall'.op = "issueCredential"
                         THEN /\ Len(h) = 0
                              /\ g[Len(g)].status = Active
                       ELSE /\ lastCall'.op \in StatusOps
                            /\ g[Len(g)].status = lastCall'.args.newStatus
                            /\ g[Len(g)].reason = lastCall'.args.reason]_vars

\* C9 happens: a history holds the issuance entry followed by two committed
\* status changes.
C9_Witness ==
    \E id \in CredentialIds :
        /\ Len(statusHistory[id]) = 3
        /\ changeCount[id] = 2
        /\ lastCall.op \in StatusOps
        /\ lastCall.args.id = id

\* C10: batchCheckStatus never fails; its two arrays are as long as the
\* input, and position i holds what checkStatus answers for id i if that
\* id was issued and (Revoked, false) otherwise.
C10_BatchMatchesCheckStatus ==
    \A ids \in BatchInputs :
      LET r == batchCheckStatus(ids)
      IN /\ r.err = Ok
         /\ Len(r.statuses) = Len(ids)
         /\ Len(r.validities) = Len(ids)
         /\ \A i \in 1..Len(ids) :
              IF issueCount[ids[i]] > 0
                THEN /\ checkStatus(ids[i]).err = Ok
                     /\ r.statuses[i] = checkStatus(ids[i]).status
                     /\ r.validities[i] = checkStatus(ids[i]).isValid
              ELSE r.statuses[i] = Revoked /\ r.validities[i] = FALSE

\* C10 happens: a batch of an unknown id followed by a valid issued one is
\* answered (Revoked, false), (Active, true).
C10_Witness ==
    \E ids \in BatchInputs :
        /\ Len(ids) = 2
        /\ issueCount[ids[1]] = 0
        /\ issueCount[ids[2]] = 1
        /\ batchCheckStatus(ids).statuses = <<Revoked, Active>>
        /\ batchCheckStatus(ids).validities = <<FALSE, TRUE>>

(* ------------------------ properties of DIDRegistry -------------------- *)
\* C11: every DID that has been created has at least one controller, and a
\* removeController call by a controller that would leave the DID without
\* controllers fails with "Cannot remove last controller" and leaves the
\* controller list and the reverse index as they were.
C11_AtLeastOneController ==
    /\ \A did \in DIDs :
          createCount[did] > 0 => Len(getControllers(did)) >= 1
    /\ \A sender \in Addresses, did \in DIDs, controller \in Addresses :
          /\ isController(did, sender)
          /\ isController(did, controller)
          /\ Len(getControllers(did)) = 1
          => LET r == removeController(sender, did, controller)
             IN /\ r.err = LastController
                /\ r.ctl = didControllers
                /\ r.rev = controllerDIDs

\* C11 happens: a committed removeController left a single controller, and
\* removing that one is refused.
C11_Witness ==
    /\ lastDidCall.op = "removeController"
    /\ \E a \in Addresses :
          /\ getControllers(lastDidCall.args.did) = <<a>>
          /\ removeController(a, lastDidCall.args.did, a).err = LastController

\* C12: createDID succeeds at most once per id; once it has succeeded, every
\* createDID on that id fails with "DID already exists", also after the DID
\* was deactivated.
C12_CreatedOnce ==
    \A did \in AllDIDs :
        /\ createCount[did] <= 1
        /\ createCount[did] = 1
              => \A sender \in Addresses, doc \in DocInputs :
                    createDID(sender, did, doc).err = DidAlreadyExists

\* C13: in the state right after a committed createDID(id, ...) by caller c,
\* didExists(id) is true, resolveDID(id) returns the document with that id,
\* and c is a controller of id and no other address is.
C13_CreatorIsSoleController ==
    lastDidCall.op = "createDID"
      => LET id == lastDidCall.args.did
             c == lastDidCall.args.sender
         IN /\ didExists(id)
            /\ resolveDID(id).err = Ok
            /\ resolveDID(id).document.id = id
            /\ \A a \in Addresses : isController(id, a) <=> a = c

\* the controller set of a DID: the addresses in its controller list
ControllerSet(did) ==
    {getControllers(did)[i] : i \in 1..Len(getControllers(did))}

\* C14: once a DID has been created, every committed transaction that changes
\* its document (fields, timestamps, active flag) or its controller set was
\* sent by an address that was a controller of the DID when it was called.
C14_OnlyControllersMutate ==
    [][\A did \in DIDs :
          /\ createCount[did] > 0
          /\ \/ didDocuments'[did] # didDocuments[did]
             \/ ControllerSet(did)' # ControllerSet(did)
          => isController(did, lastDidCall'.args.sender)]_<<vars, didVars>>

\* C15: updateDID on a DID that was created, called by an address that is
\* not one of its controllers, fails with "Not a controller of this DID" and
\* leaves the storage as it was; called by a controller of an active DID it
\* commits, replaces context, publicKey and service by the arguments and
\* keeps id, created, every other document and the controller lists. The
\* document of the last committed updateDID carries the arguments of the call.
C15_UpdateDID ==
    /\ \A sender \in Addresses, did \in DIDs, doc \in DocInputs :
          LET r == updateDID(sender, did, doc)
          IN /\ createCount[did] > 0 /\ ~isController(did, sender)
                => /\ r.err = NotController
                   /\ r.docs = didDocuments
                   /\ r.ctl = didControllers
                   /\ r.rev = controllerDIDs
             /\ didExists(did) /\ isController(did, sender)
                => /\ r.err = Ok
                   /\ r.docs[did].context = doc.context
                   /\ r.docs[did].publicKey = doc.publicKey
                   /\ r.docs[did].service = doc.service
                   /\ r.docs[did].id = didDocuments[did].id
                   /\ r.docs[did].created = didDocuments[did].created
                   /\ r.docs[did].exists
                   /\ \A other \in AllDIDs \ {did} :
                         r.docs[other] = didDocuments[other]
                   /\ r.ctl = didControllers
                   /\ r.rev = controllerDIDs
    /\ lastDidCall.op = "updateDID"
          => LET id == lastDidCall.args.did
             IN /\ didDocuments[id].context = lastDidCall.args.doc.context
                /\ didDocuments[id].publicKey = lastDidCall.args.doc.publicKey
                /\ didDocuments[id].service = lastDidCall.args.doc.service
                /\ didDocuments[id].id = id
                /\ isController(id, lastDidCall.args.sender)

\* C15 happens: an updateDID was committed on a DID that another address
\* does not control, and that address's updateDID is refused.
C15_Witness ==
    /\ lastDidCall.op = "updateDID"
    /\ \E b \in Addresses, doc \in DocInputs :
          /\ ~isController(lastDidCall.args.did, b)
          /\ doc # lastDidCall.args.doc
          /\ updateDID(b, lastDidCall.args.did, doc).err = NotController

C17_ResolveAfterDeactivate ==
    lastDidCall.op = "deactivateDID"
      => /\ resolveDID(lastDidCall.args.did).err = Ok
         /\ ~resolveDID(lastDidCall.args.did).document.exists

\* x occurs in the array seq
Contains(seq, x) == \E i \in 1..Len(seq) : seq[i] = x

\* C18: addController and removeController by an address that is not a
\* controller of the DID fail with "Not a controller of this DID" and leave
\* the storage as it was; adding a controller again fails with "Already a
\* controller"; a successful addController(id, a) makes a a controller, a
\* successful removeController(id, a) makes a a non-controller, and both
\* leave the membership of every other address as it was.
C18_ControllerManagement ==
    \A sender \in Addresses, did \in DIDs, a \in Addresses :
        LET add == addController(sender, did, a)
            rem == removeController(sender, did, a)
        IN /\ ~isController(did, sender)
              => /\ add.err = NotController
                 /\ rem.err = NotController
                 /\ <<add.docs, add.ctl, add.rev>> = didStorage
                 /\ <<rem.docs, rem.ctl, rem.rev>> = didStorage
           /\ isController(did, sender) /\ isController(did, a)
              => add.err = AlreadyController
           /\ add.err = Ok
              => /\ Contains(add.ctl[did], a)
                 /\ \A b \in Addresses \ {a} :
                       Contains(add.ctl[did], b) <=> isController(did, b)
           /\ rem.err = Ok
              => /\ ~Contains(rem.ctl[did], a)
                 /\ \A b \in Addresses \ {a} :
                       Contains(rem.ctl[did], b) <=> isController(did, b)

\* C19: in every reachable state, for every DID id and address a, a is in
\* getControllers(id) if and only if id is in getDIDsByController(a).
C19_ReverseIndexConsistent ==
    \A did \in DIDs, a \in Addresses :
        Contains(getControllers(did), a)
          <=> Contains(getDIDsByController(a), did)

\* C19 happens: after a committed removeController one address controls a
\* DID that the removed address no longer controls.
C19_Witness ==
    /\ lastDidCall.op = "removeController"
    /\ \E a \in Addresses :
          /\ Contains(getControllers(lastDidCall.args.did), a)
          /\ ~Contains(getControllers(lastDidCall.args.did),
                       lastDidCall.args.controller)
          /\ ~Contains(getDIDsByController(lastDidCall.args.controller),
                       lastDidCall.args.did)

(* ------------------------ properties of IdentityAPI --------------------- *)
\* the collaborators of verifyCredential in the order of its steps
PipelineOrder ==
    <<"didExists", "resolveDID", "checkStatus", "DIDCore.verifyCredential">>

\* the calls of s are calls of the pipeline, each at most once, in its order
InPipelineOrder(s) ==
    /\ \A i \in 1..Len(s) : \E k \in 1..Len(PipelineOrder) :
          s[i] = PipelineOrder[k]
    /\ \A i, j \in 1..Len(s) :
          i < j => \E k, l \in 1..Len(PipelineOrder) :
                      /\ k < l
                      /\ s[i] = PipelineOrder[k]
                      /\ s[j] = PipelineOrder[l]

\* C20: verifyCredential checks structure, expiration, issuer, status and
\* proof in this order and stops at the first error. Its collaborators are
\* called in pipeline order; a finished call has at most one error, and the
\* calls it made are the ones of the steps up to the one that gave the
\* error; once there is an error no further call is made; a call with a
\* complete credential whose expirationDate is in the past returns
\* "Credential has expired" at once, with no registry called.
C20_ShortCircuit ==
    [][/\ InPipelineOrder(calls')
       /\ Len(errors) > 0 => Len(calls') <= Len(calls)
       /\ pc' = "done"
          => /\ Len(errors') <= 1
             /\ result'.valid <=> errors' = << >>
             /\ ~result'.valid => result'.errors = errors'
             /\ errors' \in {<<InvalidStructure>>, <<CredentialExpired>>}
                => calls' = << >>
             /\ errors' = <<IssuerNotFound>>
                => calls' \in {<<"didExists">>, <<"didExists", "resolveDID">>}
             /\ errors' = <<CredentialRevoked>>
                => calls' = <<"didExists", "resolveDID", "checkStatus">>
             /\ errors' = << >>
                => /\ Len(calls') >= 2
                   /\ calls'[1] = "didExists"
                   /\ calls'[2] = "resolveDID"
       /\ pc = "idle" /\ pc' # "idle"
          => /\ ~({"context", "type", "issuer"} \subseteq DOMAIN credential')
                => /\ pc' = "done"
                   /\ result' = [valid |-> FALSE,
                                 errors |-> <<InvalidStructure>>]
             /\ /\ {"context", "type", "issuer", "expirationDate"}
                      \subseteq DOMAIN credential'
                /\ credential'.expirationDate \in 0..(now - 1)
                => /\ pc' = "done"
                   /\ result' = [valid |-> FALSE,
                                 errors |-> <<CredentialExpired>>]
                   /\ calls' = << >>
      ]_<<vars, didVars, verifyVars>>

\* C20 happens: a complete credential of an existing issuer, with a status
\* entry that is revoked, was rejected as expired and no registry was called.
C20_Witness ==
    /\ pc = "done"
    /\ result = [valid |-> FALSE, errors |-> <<CredentialExpired>>]
    /\ calls = << >>
    /\ "credentialStatus" \in DOMAIN credential
    /\ didExists(issuerDID(credential))
    /\ credentialStatuses[credential.credentialStatus.id].status = Revoked

\* the call in progress has just returned the result of an unresolved issuer,
\* and neither the status registry nor the proof check was called
IssuerNotFoundReturned ==
    /\ pc = "done"
    /\ result = [valid |-> FALSE, errors |-> <<IssuerNotFound>>]
    /\ ~Contains(calls, "checkStatus")
    /\ ~Contains(calls, "DIDCore.verifyCredential")

\* C21: a verifyCredential call that has passed the structure and expiration
\* checks returns valid = false with errors exactly ["Issuer DID not found"],
\* with no status or proof call made, whenever the issuer DID is not there
\* at one of its two DID lookups (never created or deactivated) or a lookup
\* fails: a lookup step either goes on, and then the DID is in the registry,
\* or ends the call with that result.
C21_IssuerNotFound ==
    [][LET did == issuerDID(credential)
       IN /\ pc = "didExists" /\ pc' # pc
             => /\ IssuerNotFoundReturned'
                   \/ (pc' = "resolveDID" /\ didDocuments[did].exists)
                /\ ~didDocuments[did].exists => IssuerNotFoundReturned'
          /\ pc = "resolveDID" /\ pc' # pc
             => /\ IssuerNotFoundReturned'
                   \/ /\ didDocuments[did].exists
                      /\ didResolution'.exists
                      /\ errors' = << >>
                /\ ~didDocuments[did].exists => IssuerNotFoundReturned'
                /\ ~didResolution'.exists => IssuerNotFoundReturned'
      ]_<<vars, didVars, verifyVars>>

\* C21 happens: a credential with a status entry and a proof, whose issuer DID
\* was created and then deactivated, is rejected for its issuer.
C21_Witness ==
    /\ IssuerNotFoundReturned
    /\ {"credentialStatus", "proof"} \subseteq DOMAIN credential
    /\ createCount[issuerDID(credential)] > 0
    /\ ~didDocuments[issuerDID(credential)].exists

\* C22: in the status step, an answer of checkStatus with isValid = false
\* ends the call with the one error "Credential has been revoked or is
\* invalid" and no proof check; a checkStatus call that reverts or fails
\* only adds the status warning, and the call goes on to the proof step. A
\* result that carries the status warning is a valid one.
C22_StatusStep ==
    [][/\ pc = "checkStatus" /\ pc' # pc
          => LET r == checkStatus(credential.credentialStatus.id)
                 stopped ==
                    /\ r.err = Ok /\ ~r.isValid
                    /\ pc' = "done"
                    /\ result' = [valid |-> FALSE,
                                  errors |-> <<CredentialRevoked>>]
                    /\ ~Contains(calls', "DIDCore.verifyCredential")
                 warned ==
                    /\ IsPrefix(Append(warnings, StatusWarning), warnings')
                    /\ errors' = << >>
                    /\ pc' \in {"verifyProof", "done"}
                    /\ "proof" \in DOMAIN credential <=> pc' = "verifyProof"
                 passed ==
                    /\ r.err = Ok /\ r.isValid
                    /\ ~Contains(warnings', StatusWarning)
                    /\ errors' = << >>
                    /\ pc' \in {"verifyProof", "done"}
             IN /\ stopped \/ warned \/ passed
                /\ r.err # Ok => warned
       /\ pc' = "done" /\ Contains(warnings', StatusWarning)
          => /\ result'.valid
             /\ "errors" \notin DOMAIN result'
             /\ result'.warnings = warnings'
      ]_<<vars, didVars, verifyVars>>

\* C22 happens: the status lookup of a credential that is Revoked in the
\* registry failed, and the credential was judged valid with the warning.
C22_Witness ==
    /\ pc = "done"
    /\ result.valid
    /\ Contains(warnings, StatusWarning)
    /\ result.warnings = warnings
    /\ credentialStatuses[credential.credentialStatus.id].status = Revoked

\* C24 as stated: every returned result has valid = true exactly when its
\* error list is empty or left out, carries the credential id and the
\* resolved issuer, and leaves out empty errors and warnings lists.
C24_EveryResultCarriesIdAndIssuer ==
    pc = "done"
      => /\ result.valid <=> ("errors" \notin DOMAIN result
                              \/ result.errors = << >>)
         /\ "credentialId" \in DOMAIN result
         /\ "issuer" \in DOMAIN result
         /\ "errors" \in DOMAIN result => result.errors # << >>
         /\ "warnings" \in DOMAIN result => result.warnings # << >>

\* C24 amended: every returned result has valid = true exactly when its
\* error list is left out; a valid result carries the credential id, the
\* resolved issuer and its warnings, left out when there are none; an invalid
\* result carries nothing but valid = false and a list of one error.
C24_ResultShape ==
    pc = "done"
      => /\ result.valid <=> "errors" \notin DOMAIN result
         /\ result.valid
            => /\ DOMAIN result \subseteq
                     {"valid", "credentialId", "issuer", "warnings"}
               /\ result.credentialId = credential.id
               /\ result.issuer = issuerDID(credential)
               /\ errors = << >>
               /\ "warnings" \in DOMAIN result <=> warnings # << >>
               /\ "warnings" \in DOMAIN result => result.warnings = warnings
         /\ ~result.valid
            => /\ DOMAIN result = {"valid", "errors"}
               /\ result.errors = errors
               /\ Len(errors) = 1

\* C24 happens: a credential with an accepted proof was judged valid, with
\* no warning to report.
C24_Witness ==
    /\ pc = "done"
    /\ result.valid
    /\ "warnings" \notin DOMAIN result
    /\ result.credentialId = "urn:vc:1"
    /\ "proof" \in DOMAIN credential

\* the error list of a result, empty when the result has none
ErrorsOf(r) == IF "errors" \in DOMAIN r THEN r.errors ELSE << >>

\* the warning list of a result, empty when the result has none
WarningsOf(r) == IF "warnings" \in DOMAIN r THEN r.warnings ELSE << >>

\* C23: the proof step never changes the verdict. For every credential
\* without proof, every proof it may be given and every registry failure,
\* against one registry state: the results with the proof and without it have
\* the same valid flag and the same errors; when they are valid, the
\* credential without proof has the warnings of an accepted proof followed by
\* "Credential has no proof", and one with a rejected proof has them
\* followed by "Could not verify credential proof".
C23_ProofNeverChangesVerdict ==
    \A c \in {x \in Credentials : "proof" \notin DOMAIN x},
       failure \in Failures :
        LET absent == verifyCredential(c, failure)
            accepted ==
                verifyCredential(c @@ ("proof" :> [jws |-> "sig"]), failure)
            rejected ==
                verifyCredential(c @@ ("proof" :> [jws |-> ""]), failure)
        IN /\ accepted.valid = absent.valid
           /\ rejected.valid = absent.valid
           /\ ErrorsOf(accepted) = ErrorsOf(absent)
           /\ ErrorsOf(rejected) = ErrorsOf(absent)
           /\ absent.valid
              => /\ WarningsOf(absent)
                      = WarningsOf(accepted) \o <<NoProofWarning>>
                 /\ WarningsOf(rejected)
                      = WarningsOf(accepted) \o <<ProofWarning>>

\* C23 happens: against a registry with the issuer's DID, a credential is
\* judged valid with a rejected proof and with no proof, each with its
\* warning.
C23_Witness ==
    LET c == [f \in DOMAIN CompleteCredential \ {"proof"} |->
                 CompleteCredential[f]]
    IN /\ verifyCredential(c, "none")
            = [valid |-> TRUE, credentialId |-> "urn:vc:1",
               issuer |-> "did:1", warnings |-> <<NoProofWarning>>]
       /\ verifyCredential(c @@ ("proof" :> [jws |-> ""]), "none")
            = [valid |-> TRUE, credentialId |-> "urn:vc:1",
               issuer |-> "did:1", warnings |-> <<ProofWarning>>]

\* the errors of the invalid ones among the first calls of a list, one call
\* after the other
RECURSIVE ErrorsInOrder(_, _, _)
ErrorsInOrder(credentials, failures, i) ==
    IF i > Len(credentials) THEN << >>
    ELSE ErrorsOf(verifyCredential(credentials[i], failures[i]))
         \o ErrorsInOrder(credentials, failures, i + 1)

\* C25: a structurally complete presentation is valid exactly when none of
\* its credentials is invalid under verifyCredential; with k >= 1 invalid
\* ones its errors are "k credential(s) are invalid" followed by the errors
\* of the invalid credentials in the order of the presentation.
C25_PresentationAggregates ==
    \A credentials \in Lists(PresentedCredentials, MaxPresented),
       frame \in {NoField,
                  [proof |-> [jws |-> "sig"], holder |-> "did:1"]} :
        \A failures \in FailuresFor(credentials) :
            LET p == [context |-> <<"https://www.w3.org/2018/credentials/v1">>,
                      verifiableCredential |-> credentials] @@ frame
                r == verifyPresentation(p, failures, "none")
                k == Cardinality(
                        {i \in 1..Len(credentials) :
                            ~verifyCredential(credentials[i],
                                              failures[i]).valid})
            IN /\ r.valid <=> k = 0
               /\ k = 0 => "errors" \notin DOMAIN r
               /\ k >= 1
                  => r.errors
                       = <<ToString(k) \o " credential(s) are invalid">>
                         \o ErrorsInOrder(credentials, failures, 1)

\* C25 happens: a presentation of a revoked credential followed by one
\* without issuer is invalid with the count and the two errors in this order.
C25_Witness ==
    LET revoked == CompleteCredential
                     @@ ("credentialStatus" :> [id |-> "cred:1"])
        noIssuer == [f \in DOMAIN CompleteCredential \ {"issuer"} |->
                        CompleteCredential[f]]
        p == [context |-> <<"https://www.w3.org/2018/credentials/v1">>,
              verifiableCredential |-> <<revoked, noIssuer>>]
    IN verifyPresentation(p, <<"none", "none">>, "none")
         = [valid |-> FALSE,
            errors |-> <<"2 credential(s) are invalid", CredentialRevoked,
                         InvalidStructure>>,
            warnings |-> <<NoProofOrHolder>>]

\* C26: the holder of a presentation is advisory. For every structurally
\* complete presentation with proof and holder and every outcome of the
\* holder lookup, the valid flag and the errors are those of the same
\* presentation without proof and holder; a holder DID that is not in the
\* registry or whose lookup fails adds the warning "Holder DID not found" and
\* nothing else, a holder that resolves adds nothing.
C26_HolderIsAdvisory ==
    \A credentials \in Lists(PresentedCredentials, MaxPresented),
       holder \in IssuerDIDs, holderFailure \in Failures :
        \A failures \in FailuresFor(credentials) :
            LET bare == [context |->
                             <<"https://www.w3.org/2018/credentials/v1">>,
                         verifiableCredential |-> credentials]
                p == bare @@ [proof |-> [jws |-> "sig"], holder |-> holder]
                r == verifyPresentation(p, failures, holderFailure)
                r0 == verifyPresentation(bare, failures, "none")
                unresolved ==
                    \/ ~didDocuments[holder].exists
                    \/ holderFailure \in {"didExists", "resolveDID"}
            IN /\ r.valid = r0.valid
               /\ ErrorsOf(r) = ErrorsOf(r0)
               /\ r.holder = holder
               /\ WarningsOf(r) = IF unresolved THEN <<HolderNotFound>>
                                  ELSE << >>

\* C26 happens: a presentation of one valid credential, with proof and
\* holder, is valid although the lookup of the holder fails, and carries the
\* holder warning only.
C26_Witness ==
    LET p == [context |-> <<"https://www.w3.org/2018/credentials/v1">>,
              verifiableCredential |-> <<CompleteCredential>>,
              proof |-> [jws |-> "sig"], holder |-> "did:1"]
    IN /\ didExists("did:1")
       /\ verifyPresentation(p, <<"none">>, "resolveDID")
            = [valid |-> TRUE, holder |-> "did:1",
               warnings |-> <<HolderNotFound>>]

C28_RevokedEndToEnd ==
    \A id \in StatusIds :
        LET record == credentialStatuses[id]
            answer == checkStatus(id)
        IN /\ lastCall.op = "issueCredential" /\ lastCall.args.id = id
              => record.exists /\ record.status = Active
           /\ record.exists /\ record.status = Active /\ record.expiresAt = 0
              => answer = [err |-> Ok, status |-> Active, isValid |-> TRUE,
                           expiresAt |-> 0]
           /\ lastCall.op = "revokeCredential" /\ lastCall.args.id = id
              => record.exists /\ record.status = Revoked
           /\ record.exists /\ record.status = Revoked
              => /\ answer = [err |-> Ok, status |-> Revoked,
                              isValid |-> FALSE,
                              expiresAt |-> record.expiresAt]
                 /\ \A c \in Credentials :
                       /\ {"context", "type", "issuer", "credentialStatus"}
                             \subseteq DOMAIN c
                       /\ c.credentialStatus.id = id
                       /\ "expirationDate" \in DOMAIN c
                             => c.expirationDate \notin 0..(now - 1)
                       /\ didDocuments[issuerDID(c)].exists
                       => verifyCredential(c, "none")
                            = [valid |-> FALSE,
                               errors |-> <<CredentialRevoked>>]

\* C28 happens: the issuer has created did:1, issued cred:1 with
\* expiresAt = 0 and just revoked it, and a credential of did:1 with this
\* status id is rejected as revoked.
C28_Witness ==
    /\ lastCall.op = "revokeCredential"
    /\ lastCall.args.sender = Issuer
    /\ credentialStatuses["cred:1"].expiresAt = 0
    /\ didExists("did:1")
    /\ checkStatus("cred:1")
         = [err |-> Ok, status |-> Revoked, isValid |-> FALSE,
            expiresAt |-> 0]
    /\ verifyCredential(
           CompleteCredential @@ ("credentialStatus" :> [id |-> "cred:1"]),
           "none")
         = [valid |-> FALSE, errors |-> <<CredentialRevoked>>]

\* the events of a status change to newStatus: one CredentialStatusUpdated,
\* then at most one of the three specific events, the one of newStatus
StatusChangeEvents(events, id, newStatus) ==
    /\ Len(events) \in {1, 2}
    /\ events[1].name = "CredentialStatusUpdated"
    /\ events[1].credentialId = id
    /\ events[1].newStatus = newStatus
    /\ Len(events) = 2
       => /\ events[2].credentialId = id
          /\ events[2].name
               = (IF newStatus = Revoked THEN "CredentialRevoked"
                  ELSE IF newStatus = Suspended THEN "CredentialSuspended"
                  ELSE IF newStatus = Active THEN "CredentialReactivated"
                  ELSE "none")

\* the one event of a DID write
DidWriteEvent ==
    [createDID |-> "DIDCreated", updateDID |-> "DIDUpdated",
     deactivateDID |-> "DIDDeactivated", addController |-> "ControllerAdded",
     removeController |-> "ControllerRemoved"]

\* a call that does not commit emits nothing
Silent(r) == r.err # Ok => r.events = << >>

\* C29: events are emitted exactly once per committed write and never for a
\* failed one. The write committed last emitted: for createDID, updateDID,
\* deactivateDID, addController and removeController exactly one event, of
\* its kind and for its DID; for issueCredential exactly one
\* CredentialIssued for its id; for a status change exactly one
\* CredentialStatusUpdated for its id and new status, followed by at most
\* one of CredentialRevoked, CredentialSuspended and CredentialReactivated,
\* the one of the new status. In every state, every call of a write
\* operation that fails emits no event.
C29_OneEventPerCommittedWrite ==
    /\ lastCall.op = "issueCredential"
       => /\ Len(lastCall.events) = 1
          /\ lastCall.events[1].name = "CredentialIssued"
          /\ lastCall.events[1].credentialId = lastCall.args.id
    /\ lastCall.op \in {"updateStatus", "revokeCredential",
                        "suspendCredential", "reactivateCredential"}
       => /\ StatusChangeEvents(lastCall.events, lastCall.args.id,
                                lastCall.args.newStatus)
          /\ credentialStatuses[lastCall.args.id].status
               = lastCall.args.newStatus
    /\ lastDidCall.op \in DOMAIN DidWriteEvent
       => /\ Len(lastDidCall.events) = 1
          /\ lastDidCall.events[1].name = DidWriteEvent[lastDidCall.op]
          /\ lastDidCall.events[1].did = lastDidCall.args.did
    /\ lastCall.op \in {"deploy", "mine"} => lastCall.events = << >>
    /\ lastDidCall.op \in {"deploy", "mine"} => lastDidCall.events = << >>
    /\ \A sender \in Addresses, id \in AllIds, reason \in Reasons :
          /\ \A expiresAt \in ExpiryInputs :
                Silent(issueCredential(sender, id, expiresAt))
          /\ \A newStatus \in Status :
                Silent(updateStatus(sender, id, newStatus, reason))
          /\ Silent(revokeCredential(sender, id, reason))
          /\ Silent(suspendCredential(sender, id, reason))
          /\ Silent(reactivateCredential(sender, id))
    /\ \A sender \in Addresses, did \in AllDIDs :
          /\ \A doc \in DocInputs :
                /\ Silent(createDID(sender, did, doc))
                /\ Silent(updateDID(sender, did, doc))
          /\ \A controller \in Addresses \cup {ZeroAddress} :
                /\ Silent(addController(sender, did, controller))
                /\ Silent(removeController(sender, did, controller))
          /\ Silent(deactivateDID(sender, did))

\* C29 happens: a suspended credential was just reactivated, with the two
\* events of a reactivation; a second reactivation of it fails, and so does
\* the deactivation of a DID that was never created.
C29_Witness ==
    /\ lastCall.op = "reactivateCredential"
    /\ Len(lastCall.events) = 2
    /\ lastCall.events[1].name = "CredentialStatusUpdated"
    /\ lastCall.events[2].name = "CredentialReactivated"
    /\ reactivateCredential(lastCall.args.sender, lastCall.args.id).err
         = NotSuspended
    /\ deactivateDID(lastCall.args.sender, "did:1").err # Ok

C31_NeverIssuedIsNotFound ==
    \A id \in AllIds :
        issueCount[id] = 0
        => \A sender \in Addresses, reason \in Reasons :
              /\ \A newStatus \in Status :
                    updateStatus(sender, id, newStatus, reason).err
                      = NotFound
              /\ revokeCredential(sender, id, reason).err = NotFound
              /\ suspendCredential(sender, id, reason).err = NotFound
              /\ reactivateCredential(sender, id).err = NotFound

\* C32: updateDID on an id for which no DID was ever created fails with
\* "DID does not exist", for every caller and every document.
C32_NeverCreatedIsNotFound ==
    \A did \in AllDIDs :
        createCount[did] = 0
        => \A sender \in Addresses, doc \in DocInputs :
              updateDID(sender, did, doc).err = DidNotFound

\* C33: right after the issuer has revoked a credential, checkStatus
\* returns the numeric status code 2 together with isValid = false.
C33_RevokedIsCodeTwo ==
    lastCall.op = "revokeCredential"
    => LET answer == checkStatus(lastCall.args.id)
       IN /\ answer.err = Ok
          /\ answer.status = 2
          /\ ~answer.isValid

\* the ids of the credentials whose stored issuer is a
IssuedBy(a) ==
    {id \in AllIds : credentialStatuses[id].exists
                     /\ credentialStatuses[id].issuer = a}

\* C34: after every step that writes the storage, getCredentialsByIssuer(a)
\* lists exactly the ids of the credentials whose stored issuer is a, each
\* once, so every existing credential is in the list of exactly one issuer
\* (before the first write every list is empty); and a list changes only
\* by a committed issueCredential of its issuer, which appends the issued
\* id: nothing is removed and the order is the order of issuance.
C34_IssuerIndex ==
    [][storage' # storage
       => /\ \A a \in Addresses :
                LET ids == getCredentialsByIssuer(a)'
                IN /\ {ids[i] : i \in 1..Len(ids)} = IssuedBy(a)'
                   /\ \A i, j \in 1..Len(ids) : ids[i] = ids[j] => i = j
                   /\ \A i, j \in 1..Len(ids) :
                         i < j => credentialStatuses'[ids[i]].issuedAt
                                    <= credentialStatuses'[ids[j]].issuedAt
          /\ \A id \in AllIds :
                credentialStatuses'[id].exists
                => Cardinality(
                      {a \in Addresses :
                          \E i \in 1..Len(issuerCredentials'[a]) :
                              issuerCredentials'[a][i] = id}) = 1
          /\ \A a \in Addresses :
                issuerCredentials'[a] # issuerCredentials[a]
                => /\ lastCall'.op = "issueCredential"
                   /\ lastCall'.args.sender = a
                   /\ ~credentialStatuses[lastCall'.args.id].exists
                   /\ issuerCredentials'[a]
                        = Append(issuerCredentials[a], lastCall'.args.id)
      ]_vars

\* C34 happens: 0xA has issued cred:2 and then cred:1, 0xB has issued
\* nothing, and the lists say so.
C34_Witness ==
    /\ getCredentialsByIssuer("0xA") = <<"cred:2", "cred:1">>
    /\ getCredentialsByIssuer("0xB") = << >>
    /\ credentialStatuses["cred:1"].issuer = "0xA"
    /\ credentialStatuses["cred:2"].issuer = "0xA"

\* C35: for every existing credential the history is non-empty, begins with
\* an Active entry made at issuedAt, ends with an entry of the stored status
\* whose timestamp
\* is the record's updatedAt, names the stored issuer as the actor of every
\* entry, and has non-decreasing timestamps, with updatedAt >= issuedAt.
C35_HistoryMatchesRecord ==
    \A id \in AllIds :
        credentialStatuses[id].exists
        => LET record == credentialStatuses[id]
               history == getStatusHistory(id)
           IN /\ Len(history) >= 1
              /\ history[1].status = Active
              /\ history[1].timestamp = record.issuedAt
              /\ history[Len(history)].status = record.status
              /\ history[Len(history)].timestamp = record.updatedAt
              /\ \A i \in 1..Len(history) :
                    history[i].updatedBy = record.issuer
              /\ \A i \in 1..(Len(history) - 1) :
                    history[i].timestamp <= history[i + 1].timestamp
              /\ record.updatedAt >= record.issuedAt

\* C35 happens: a credential issued in one block and suspended and
\* revoked in a later one has the three entries, the last one at updatedAt.
C35_Witness ==
    \E id \in CredentialIds :
        LET record == credentialStatuses[id]
            history == getStatusHistory(id)
        IN /\ record.exists
           /\ Len(history) = 3
           /\ record.updatedAt > record.issuedAt
           /\ history[3].status = record.status
           /\ history[3].timestamp = record.updatedAt
           /\ history[2].status # record.status

\* C36: once a credential exists, no step changes its issuer, issuedAt,
\* expiresAt or credentialId, and it exists ever after: a credential is
\* never transferred, renewed or deleted, whoever calls what.
C36_RecordIdentityIsFixed ==
    [][\A id \in AllIds :
          credentialStatuses[id].exists
          => /\ credentialStatuses'[id].exists
             /\ credentialStatuses'[id].issuer = credentialStatuses[id].issuer
             /\ credentialStatuses'[id].issuedAt
                  = credentialStatuses[id].issuedAt
             /\ credentialStatuses'[id].expiresAt
                  = credentialStatuses[id].expiresAt
             /\ credentialStatuses'[id].credentialId
                  = credentialStatuses[id].credentialId
      ]_vars

\* C36 happens: a credential with an expiry was suspended and reactivated
\* in a later block and still has the issuer, the issuance time, the expiry
\* and the id it was issued with.
C36_Witness ==
    \E id \in CredentialIds :
        LET record == credentialStatuses[id]
        IN /\ record.exists
           /\ lastCall.op = "reactivateCredential"
           /\ lastCall.args.id = id
           /\ record.credentialId = id
           /\ record.issuer = statusHistory[id][1].updatedBy
           /\ record.issuedAt = statusHistory[id][1].timestamp
           /\ record.expiresAt > 0
           /\ record.updatedAt > record.issuedAt

\* no element of the sequence occurs twice
NoDuplicates(s) == \A i, j \in 1..Len(s) : s[i] = s[j] => i = j

\* C37: in every state no controller list holds an address twice and no
\* reverse list holds a DID twice, and right after a committed
\* removeController(did, a) the address a is no controller of did.
C37_NoDuplicateControllers ==
    /\ \A did \in AllDIDs : NoDuplicates(didControllers[did])
    /\ \A a \in Addresses : NoDuplicates(controllerDIDs[a])
    /\ lastDidCall.op = "removeController"
       => ~isController(lastDidCall.args.did, lastDidCall.args.controller)

C39_UnknownStatusIdIsNotInvalid ==
    \A c \in Credentials :
        /\ {"context", "type", "issuer", "credentialStatus"}
              \subseteq DOMAIN c
        /\ "expirationDate" \in DOMAIN c
              => c.expirationDate \notin 0..(now - 1)
        /\ didDocuments[issuerDID(c)].exists
        /\ issueCount[c.credentialStatus.id] = 0
        => LET r == verifyCredential(c, "none")
           IN /\ checkStatus(c.credentialStatus.id).err = NotFound
              /\ r.valid
              /\ "errors" \notin DOMAIN r
              /\ r.credentialId = c.id
              /\ r.issuer = issuerDID(c)
              /\ r.warnings[1] = StatusWarning
              /\ r = verifyCredential(c, "checkStatus")

\* C39 happens: did:1 is in the registry, cred:1 was never issued, and a
\* complete credential of did:1 with status id cred:1 and an accepted proof
\* is valid with the status warning alone.
C39_Witness ==
    /\ didExists("did:1")
    /\ issueCount["cred:1"] = 0
    /\ verifyCredential(
           CompleteCredential @@ ("credentialStatus" :> [id |-> "cred:1"]),
           "none")
         = [valid |-> TRUE, credentialId |-> "urn:vc:1", issuer |-> "did:1",
            warnings |-> <<StatusWarning>>]

\* the status registry holds the credential as valid now: Active, and not
\* past its expiry
ValidInRegistry(id) ==
    /\ credentialStatuses[id].exists
    /\ credentialStatuses[id].status = Active
    /\ credentialStatuses[id].expiresAt > 0
          => now <= credentialStatuses[id].expiresAt

\* C40: with registry writes between the reads of one verifyCredential
\* call, the call gets past its DID lookup (didExists, then resolveDID) only
\* in a state where the issuer DID is active, and past its status lookup
\* only in a state where the registry holds the credential as valid or with
\* a lookup that failed, which leaves the status warning; and a call
\* returns valid = true only after these lookups, the status lookup
\* whenever the credential has a credentialStatus. So a call whose status
\* lookup answers in a state where the credential is not valid never
\* returns valid = true.
C40_ValidOnlyAfterLookups ==
    [][/\ pc = "didExists" /\ pc' = "resolveDID"
          => didDocuments[issuerDID(credential)].exists
       /\ pc = "resolveDID" /\ pc' # "resolveDID"
          /\ (pc' = "done" => result'.valid)
          => didDocuments[issuerDID(credential)].exists
       /\ pc = "checkStatus" /\ pc' # "checkStatus"
          /\ (pc' = "done" => result'.valid)
          => \/ ValidInRegistry(credential.credentialStatus.id)
             \/ Contains(warnings', StatusWarning)
       /\ pc' = "done" /\ result'.valid
          => /\ Len(calls') >= 2
             /\ calls'[1] = "didExists"
             /\ calls'[2] = "resolveDID"
             /\ "credentialStatus" \in DOMAIN credential'
                => /\ Len(calls') >= 3
                   /\ calls'[3] = "checkStatus"
      ]_<<vars, didVars, verifyVars>>

\* C40 happens: a call found the issuer active and the credential valid at
\* its lookups and returned valid = true, and by now the credential is
\* revoked: the revocation came after the status lookup.
C40_Witness ==
    /\ pc = "done"
    /\ result.valid
    /\ "warnings" \notin DOMAIN result
    /\ calls = <<"didExists", "resolveDID", "checkStatus",
                 "DIDCore.verifyCredential">>
    /\ credentialStatuses[credential.credentialStatus.id].status = Revoked

====
